---- MODULE Spec2Model ----
(***************************************************************************)
(* Book-recommendation chat backend (Akmaldnl210015/chatbot-backend).      *)
(* The repository holds four copies of one Express service, each with the  *)
(* single endpoint POST /api/chat:                                         *)
(*   "index_a"  : src/index.js lines 1-405                                 *)
(*   "index_b"  : src/index.js lines 406-762                               *)
(*   "part_001" : src/unnamed/part_001                                     *)
(*   "part_000" : src/unnamed/part_000  (adds the "another" shortcut)      *)
(* A request handler is an async function; it is modelled as one action    *)
(* per run-to-completion segment between two awaited outbound calls.       *)
(* JavaScript strings are sequences of one-character strings, so that      *)
(* toLowerCase, includes, trim and replace are computed, not assumed.      *)
(***************************************************************************)
EXTENDS Integers, Sequences, FiniteSets, TLC

(***************************************************************************)
(* State                                                                   *)
(***************************************************************************)
\* request slots of the server
NumReqs == 2
Reqs == 1..NumReqs

VARIABLES
  variant,        \* which of the four services is running
  pc,             \* per request: "idle", the awaited call, or "done"
  body,           \* per request: req.body
  analysis,       \* per request: the analysis in use (extractor result or prevAnalysis)
  shortcut,       \* per request: handled by the "another" branch
  excludedTitle,  \* per request: lastBotMsg.recommendation.title in the "another" branch
  novels,         \* per request: the candidates after filtering and title exclusion
  sent,           \* per request: the responses written with res.json, in order
  calls,          \* per request: the outbound calls issued, in order
  replies,        \* per request: the upstream replies received, in order
  mock            \* fixed upstream replies and request of a replay run, or None
vars == <<variant, pc, body, analysis, shortcut, excludedTitle, novels, sent, calls, replies, mock>>

\* the letters String.prototype.toLowerCase maps
LowerOf == [A |-> "a", B |-> "b", C |-> "c", D |-> "d", E |-> "e", F |-> "f",
            G |-> "g", H |-> "h", I |-> "i", J |-> "j", K |-> "k", L |-> "l",
            M |-> "m", N |-> "n", O |-> "o", P |-> "p", Q |-> "q", R |-> "r",
            S |-> "s", T |-> "t", U |-> "u", V |-> "v", W |-> "w", X |-> "x",
            Y |-> "y", Z |-> "z"]

(***************************************************************************)
(* JavaScript values                                                       *)
(***************************************************************************)
\* null and undefined for string-valued fields (never equal to a string of characters)
Null == <<"null">>
Undefined == <<"undefined">>
\* null / undefined for number-valued fields
NoNum == 0 - 1
\* an optional object: None (undefined) or Some(x)
None == <<>>
Some(x) == <<x>>
IsSome(o) == Len(o) > 0
Get(o) == o[1]

\* JS truthiness of a string-valued and of a number-valued field
TruthyStr(s) == s # Null /\ s # Undefined /\ Len(s) > 0
TruthyNum(n) == n # NoNum /\ n # 0
\* x == null (the test behind ?? and ??=)
NullishStr(s) == s = Null \/ s = Undefined
NullishNum(n) == n = NoNum

(***************************************************************************)
(* Objects on the wire                                                     *)
(***************************************************************************)
\* The analysis object of the extractor.  hasBasicInfo stands for the flags the
\* server only passes through (hasBasicInfo, needsInvestigation, investigationCategory,
\* missingBasicInfo); booleans are "true", "false" or "undefined" (property absent).
\* preferences is None or Some([publication, dealbreakers]), dealbreakers None or Some(list).
NoAnalysis ==
  [hasBasicInfo |-> "undefined", genre |-> Undefined, mood |-> Undefined, topic |-> Undefined,
   preferences |-> None, readyToRecommend |-> "undefined", question |-> Undefined,
   searchQuery |-> Undefined, publication |-> Undefined]
Prefs(pub, deal) == Some([publication |-> pub, dealbreakers |-> deal])
\* the recommendation object of the selector, with the fields the assembler adds
Rec(title, pages, date, rating) ==
  [title |-> title, rating |-> rating, author |-> <<"F", "H">>, reasoning |-> <<"w", "h", "y">>,
   pageCount |-> pages, publishedDate |-> date,
   imageUrl |-> Undefined, previewLink |-> Undefined, buyLink |-> Undefined]
NoLinks ==
  [extraLarge |-> Undefined, large |-> Undefined, medium |-> Undefined,
   thumbnail |-> Undefined, smallThumbnail |-> Undefined]
\* a catalog record: the fields of volumeInfo the services read, and saleInfo.buyLink
Book(title, cats, avg, count, links, pages, date) ==
  [title |-> title, pageCount |-> pages, publishedDate |-> date,
   previewLink |-> <<"h", "t", "t", "p", ":", "/", "/", "p">>, buyLink |-> Undefined,
   categories |-> cats, averageRating |-> avg, ratingsCount |-> count, imageLinks |-> links]
\* the object handed to res.json, with the status set by res.status
Response(status, type, message, error, recommendation, echo) ==
  [analysis |-> echo, status |-> status, type |-> type, message |-> message,
   error |-> error, recommendation |-> recommendation]
\* an upstream reply: of the generative model (kind "error", "malformed" or "text")
\* and of the catalog (kind "error" or "ok", items None when the body has no items)
ModelReply(kind, text) == [kind |-> kind, text |-> text]
CatalogReply(kind, items) == [kind |-> kind, items |-> items]
\* a conversation turn of the caller's history
Turn(isUser, type, text, recommendation, echo) ==
  [analysis |-> echo, type |-> type, recommendation |-> recommendation,
   text |-> text, isUser |-> isUser]
\* req.body
Body(message, conversationHistory) ==
  [message |-> message, conversationHistory |-> conversationHistory]
\* one line of the transcript sent to the extractor: `${who}: ${text}`
Line(who, text) == [text |-> text, who |-> who]
\* an outbound call and its arguments
Call(api, query, publication, books, excluded, transcript, fullQuery) ==
  [publication |-> publication, api |-> api, query |-> query, books |-> books,
   excluded |-> excluded, transcript |-> transcript, fullQuery |-> fullQuery]
ErrorResponse(v) ==
  Response(500, "undefined", Undefined,
           CASE v = "index_a" -> <<"An error occurred while processing your request">>
             [] v = "index_b" -> <<"Something went wrong. Try again?">>
             [] v = "part_001" -> <<"Server error. Try again?">>
             [] OTHER -> <<"Something went wrong - try again?">>,
           None, None)
ValidationResponse(v) ==
  Response(400, "undefined", Undefined,
           IF v \in {"index_a", "index_b"} THEN <<"Message is required">> ELSE <<"Message required">>,
           None, None)

\* the analysis echoed with a question
echoQuestion(v, a) ==
  [NoAnalysis EXCEPT !.hasBasicInfo = a.hasBasicInfo, !.genre = a.genre, !.mood = a.mood,
                     !.topic = a.topic, !.preferences = a.preferences]
\* the analysis echoed with a recommendation
echoRecommendation(v, a) ==
  IF v = "part_001"
  THEN [NoAnalysis EXCEPT !.genre = a.genre, !.mood = a.mood, !.topic = a.topic,
                          !.publication = Get(a.preferences).publication]
  ELSE [NoAnalysis EXCEPT !.genre = a.genre, !.mood = a.mood, !.topic = a.topic,
                          !.preferences = a.preferences]
QuestionResponse(v, a) == Response(200, "question", a.question, Undefined, None, Some(echoQuestion(v, a)))
\* the response when no candidate is left after filtering (normal flow)
NoResultsResponse(v, a) ==
  CASE v = "index_a" ->
         Response(200, "question",
                  <<"I couldn't find any ">> \o (IF TruthyStr(a.genre) THEN a.genre ELSE <<>>)
                    \o <<" novels matching your preferences.">>,
                  Undefined, None, Some(echoRecommendation(v, a)))
    [] v = "index_b" ->
         Response(200, "question",
                  <<"I couldn't find any good matches for ">> \o a.searchQuery, Undefined, None, Some(a))
    [] v = "part_001" ->
         Response(200, "question",
                  <<"No ">> \o Get(a.preferences).publication \o <<" ">> \o a.genre
                    \o <<" books found for ">> \o a.topic, Undefined, None, Some(a))
    [] OTHER ->
         Response(200, "message",
                  <<"Couldn't find matching ">>
                    \o (IF TruthyStr(Get(a.preferences).publication)
                        THEN Get(a.preferences).publication ELSE <<>>)
                    \o <<" books for ">> \o a.searchQuery, Undefined, None, None)
\* the response of the "another" shortcut when nothing is left
RunOutResponse ==
  Response(200, "message", <<"I've run out of strong alternatives">>, Undefined, None, None)
RecommendationResponse(rec, echo) ==
  Response(200, "recommendation", Undefined, Undefined, rec, Some(echo))

(***************************************************************************)
(* String and array methods                                               *)
(***************************************************************************)
\* String.prototype.toLowerCase
toLowerCase(s) == [i \in 1..Len(s) |-> IF s[i] \in DOMAIN LowerOf THEN LowerOf[s[i]] ELSE s[i]]
\* String.prototype.indexOf, 1-based, 0 when absent
indexOf(s, pat) ==
  LET hits == {i \in 1..(Len(s) - Len(pat) + 1) : SubSeq(s, i, i + Len(pat) - 1) = pat}
  IN IF hits = {} THEN 0 ELSE CHOOSE i \in hits : \A j \in hits : i <= j
\* String.prototype.includes
includes(s, pat) == indexOf(s, pat) # 0
\* String.prototype.replace with a string pattern: the first occurrence only
replace(s, pat, rep) ==
  LET i == indexOf(s, pat)
  IN IF i = 0 THEN s ELSE SubSeq(s, 1, i - 1) \o rep \o SubSeq(s, i + Len(pat), Len(s))
\* String.prototype.trim
RECURSIVE trim(_)
trim(s) ==
  IF Len(s) = 0 THEN s
  ELSE IF Head(s) = " " THEN trim(Tail(s))
  ELSE IF s[Len(s)] = " " THEN trim(SubSeq(s, 1, Len(s) - 1))
  ELSE s
\* Array.prototype.join
RECURSIVE join(_, _)
join(parts, sep) ==
  IF Len(parts) = 0 THEN <<>>
  ELSE IF Len(parts) = 1 THEN parts[1]
  ELSE parts[1] \o sep \o join(Tail(parts), sep)
\* Array.prototype.filter
filter(xs, Keep(_)) == SelectSeq(xs, Keep)
\* Array.prototype.some
some(xs, P(_)) == \E i \in 1..Len(xs) : P(xs[i])

Variants == {"index_a", "index_b", "part_001", "part_000"}

(***************************************************************************)
(* Keyword tables                                                          *)
(***************************************************************************)
K_fiction == <<"f", "i", "c", "t", "i", "o", "n">>
K_novel == <<"n", "o", "v", "e", "l">>
K_romance == <<"r", "o", "m", "a", "n", "c", "e">>
K_mystery == <<"m", "y", "s", "t", "e", "r", "y">>
K_thriller == <<"t", "h", "r", "i", "l", "l", "e", "r">>
K_fantasy == <<"f", "a", "n", "t", "a", "s", "y">>
K_science_fiction == <<"s", "c", "i", "e", "n", "c", "e", " ", "f", "i", "c", "t", "i", "o", "n">>
K_horror == <<"h", "o", "r", "r", "o", "r">>
K_adventure == <<"a", "d", "v", "e", "n", "t", "u", "r", "e">>
K_non_fiction == <<"n", "o", "n", "-", "f", "i", "c", "t", "i", "o", "n">>
K_biography == <<"b", "i", "o", "g", "r", "a", "p", "h", "y">>
K_self_help == <<"s", "e", "l", "f", "-", "h", "e", "l", "p">>
K_textbook == <<"t", "e", "x", "t", "b", "o", "o", "k">>
K_history == <<"h", "i", "s", "t", "o", "r", "y">>
K_guide == <<"g", "u", "i", "d", "e">>

fictionKeywords(v) ==
  CASE v = "index_a" -> <<K_fiction, K_novel, K_romance, K_mystery, K_thriller, K_fantasy,
                          K_science_fiction, K_horror, K_adventure>>
    [] v = "part_000" -> <<K_fiction, K_novel, K_romance, K_fantasy, K_mystery, K_thriller>>
    [] OTHER -> <<K_fiction, K_novel, K_romance, K_mystery, K_thriller, K_fantasy,
                  K_science_fiction, K_horror>>
nonFictionKeywords(v) ==
  CASE v = "index_a" -> <<K_non_fiction, K_biography, K_self_help, K_textbook, K_history>>
    [] v = "part_000" -> <<K_non_fiction, K_biography, K_self_help>>
    [] OTHER -> <<K_non_fiction, K_biography, K_self_help, K_textbook, K_history, K_guide>>

\* popularity thresholds of the two later variants
PopularRating == 4
PopularCount000 == 800
PopularCount001 == 1000
\* (x || 0) for a number-valued field
numOrZero(n) == IF TruthyNum(n) THEN n ELSE 0
isPopular(v, book) ==
  CASE v = "part_000" -> numOrZero(book.averageRating) >= PopularRating
                         \/ numOrZero(book.ratingsCount) > PopularCount000
    [] v = "part_001" -> numOrZero(book.averageRating) >= PopularRating
                         \/ numOrZero(book.ratingsCount) > PopularCount001
    [] OTHER -> FALSE

\* (categories || []).join(' ').toLowerCase()
categoriesString(book) ==
  toLowerCase(join(IF IsSome(book.categories) THEN Get(book.categories) ELSE <<>>, <<" ">>))
\* keepsBook without the test for non-fiction keywords
keepsBook_ignoringNonFiction(v, book) ==
  some(fictionKeywords(v), LAMBDA k : includes(categoriesString(book), k)) \/ isPopular(v, book)
keepsBook(v, book) ==
  LET cats == categoriesString(book)
      hasFiction == some(fictionKeywords(v), LAMBDA k : includes(cats, k))
      hasNonFiction == some(nonFictionKeywords(v), LAMBDA k : includes(cats, k))
  IN (hasFiction /\ ~hasNonFiction) \/ isPopular(v, book)
filterNovelsOnly(v, books) == filter(books, LAMBDA b : keepsBook(v, b))

\* the candidate summaries handed to the selector
FormatLimit == 15
formatBooksForGemini(v, books) ==
  IF v \in {"part_000", "part_001"}
  THEN SubSeq(books, 1, IF Len(books) < FormatLimit THEN Len(books) ELSE FormatLimit)
  ELSE books

(***************************************************************************)
(* The "another" shortcut of part_000                                      *)
(***************************************************************************)
W_another == <<"a", "n", "o", "t", "h", "e", "r">>
W_one_more == <<"o", "n", "e", " ", "m", "o", "r", "e">>
W_next == <<"n", "e", "x", "t">>
W_different_one == <<"d", "i", "f", "f", "e", "r", "e", "n", "t", " ", "o", "n", "e">>
W_something_else == <<"s", "o", "m", "e", "t", "h", "i", "n", "g", " ", "e", "l", "s", "e">>
W_not_this == <<"n", "o", "t", " ", "t", "h", "i", "s">>
W_not_feeling_it == <<"n", "o", "t", " ", "f", "e", "e", "l", "i", "n", "g", " ", "i", "t">>
W_another_suggestion == <<"a", "n", "o", "t", "h", "e", "r", " ", "s", "u", "g", "g", "e", "s", "t", "i", "o", "n">>
W_more_options == <<"m", "o", "r", "e", " ", "o", "p", "t", "i", "o", "n", "s">>
W_try_another == <<"t", "r", "y", " ", "a", "n", "o", "t", "h", "e", "r">>
W_give_me_another == <<"g", "i", "v", "e", " ", "m", "e", " ", "a", "n", "o", "t", "h", "e", "r">>
W_more == <<"m", "o", "r", "e">>
anotherWords == <<W_another, W_one_more, W_next, W_different_one, W_something_else,
                  W_not_this, W_not_feeling_it, W_another_suggestion, W_more_options,
                  W_try_another, W_give_me_another>>
wantsAnother(message) ==
  LET lower == trim(toLowerCase(message))
  IN some(anotherWords, LAMBDA w : includes(lower, w)) \/ lower = W_more

\* find without reverse(): the earliest recommendation turn
lastBotMsg_first(history) ==
  LET hits == {i \in 1..Len(history) : ~history[i].isUser /\ history[i].type = "recommendation"}
  IN IF hits = {} THEN None ELSE Some(history[CHOOSE i \in hits : \A j \in hits : i <= j])
\* the last bot turn of any type
lastBotMsg_anyType(history) ==
  LET hits == {i \in 1..Len(history) : ~history[i].isUser}
  IN IF hits = {} THEN None ELSE Some(history[CHOOSE i \in hits : \A j \in hits : j <= i])
\* [...conversationHistory].reverse().find(m => !m.isUser && m.type === 'recommendation')
lastBotMsg(history) ==
  LET hits == {i \in 1..Len(history) : ~history[i].isUser /\ history[i].type = "recommendation"}
  IN IF hits = {} THEN None ELSE Some(history[CHOOSE i \in hits : \A j \in hits : j <= i])

\* excludeTitle comparing the titles without toLowerCase
excludeTitle_caseSensitive(books, title) ==
  IF TruthyStr(title)
  THEN filter(books, LAMBDA b : ~(~NullishStr(b.title) /\ includes(b.title, title)))
  ELSE books
\* excludeTitle of a server that also remembers, across requests, the titles it recommended
excludeTitle_remembering(books, title) ==
  LET shown == {Get(sent[r][i].recommendation).title :
                  r \in {q \in Reqs : Len(sent[q]) > 0 /\ IsSome(sent[q][1].recommendation)},
                  i \in {1}}
  IN filter(books, LAMBDA b : ~(~NullishStr(b.title)
                                /\ \E t \in shown \cup (IF TruthyStr(title) THEN {title} ELSE {}) :
                                      ~NullishStr(t)
                                      /\ includes(toLowerCase(b.title), toLowerCase(t))))
\* excludeTitle dropping only the records whose title is the excluded title itself
excludeTitle_exactOnly(books, title) ==
  IF TruthyStr(title)
  THEN filter(books, LAMBDA b : ~(~NullishStr(b.title)
                                   /\ toLowerCase(b.title) = toLowerCase(title)))
  ELSE books
\* novels.filter(b => !b.volumeInfo?.title?.toLowerCase().includes(excludedTitle.toLowerCase()))
\* under if (excludedTitle)
excludeTitle(books, title) ==
  IF TruthyStr(title)
  THEN filter(books, LAMBDA b : ~(~NullishStr(b.title)
                                   /\ includes(toLowerCase(b.title), toLowerCase(title))))
  ELSE books

(***************************************************************************)
(* Generative-model text: a sequence of tokens.  [k |-> "fence_json"] is   *)
(* the marker ```json, "fence" is ```, "ws" is white space, "junk" is any  *)
(* text that is not JSON, and [k |-> "json", v |-> <<x>>] is the JSON      *)
(* text of the value x (v is None for the other tokens; the JSON value     *)
(* null is [k |-> "json", v |-> None]).                                    *)
(***************************************************************************)
Tok(k) == [k |-> k, v |-> None]
Json(x) == [k |-> "json", v |-> Some(x)]
JsonNull == [k |-> "json", v |-> None]

\* text.replace(/```json\s*/g, '').replace(/```\s*/g, '')
RECURSIVE stripFencesAndSpace(_)
stripFencesAndSpace(text) ==
  IF Len(text) = 0 THEN text
  ELSE IF Head(text).k \in {"fence_json", "fence"}
       THEN LET rest == Tail(text)
            IN stripFencesAndSpace(IF Len(rest) > 0 /\ Head(rest).k = "ws"
                                   THEN <<Head(text)>> \o Tail(rest) ELSE rest)
       ELSE <<Head(text)>> \o stripFencesAndSpace(Tail(text))
\* String.prototype.trim on a token text
RECURSIVE trimText(_)
trimText(text) ==
  IF Len(text) = 0 THEN text
  ELSE IF Head(text).k = "ws" THEN trimText(Tail(text))
  ELSE IF text[Len(text)].k = "ws" THEN trimText(SubSeq(text, 1, Len(text) - 1))
  ELSE text
\* text.replace(/```json|```/g, '').trim()
stripFencesThenTrim(text) ==
  trimText(SelectSeq(text, LAMBDA t : t.k \notin {"fence_json", "fence"}))
\* a parser that takes the first JSON value it finds in the text
JSONparse_lenient(text) ==
  LET values == SelectSeq(text, LAMBDA t : t.k = "json")
  IN IF Len(values) > 0
     THEN [threw |-> FALSE, value |-> values[1].v]
     ELSE [threw |-> TRUE, value |-> None]
\* JSON.parse: white space around the one value is allowed, anything else throws
JSONparse(text) ==
  LET rest == SelectSeq(text, LAMBDA t : t.k # "ws")
  IN IF Len(rest) = 1 /\ rest[1].k = "json"
     THEN [threw |-> FALSE, value |-> rest[1].v]
     ELSE [threw |-> TRUE, value |-> None]

\* An upstream reply of the generative model: the HTTP call fails ("error"),
\* the body lacks candidates[0].content.parts[0].text ("malformed"), or it has text.
\* The result of the call: threw, or the parsed value (None is JSON null).
modelCall(reply, strip(_)) ==
  CASE reply.kind = "error" -> [threw |-> TRUE, value |-> None]
    [] reply.kind = "malformed" -> [threw |-> TRUE, value |-> None]
    [] OTHER -> JSONparse(strip(trimText(reply.text)))
\* analyzeConversation catching its failure and carrying on with a default analysis
analyzeConversation_fallback(v, reply) ==
  LET result == modelCall(reply, stripFencesAndSpace)
  IN IF result.threw
     THEN [threw |-> FALSE,
           value |-> Some([NoAnalysis EXCEPT !.preferences = Prefs(Undefined, Some(<<>>)),
                                             !.readyToRecommend = "true",
                                             !.searchQuery = K_fiction])]
     ELSE result
analyzeConversation(v, reply) == modelCall(reply, stripFencesAndSpace)
getGeminiRecommendation(v, reply) ==
  IF v = "part_000" THEN modelCall(reply, stripFencesThenTrim)
  ELSE modelCall(reply, stripFencesAndSpace)
\* building the selector prompt dereferences analysis.preferences (and, except in
\* part_000, preferences.dealbreakers) before the HTTP call is made
promptThrows(v, a) ==
  \/ ~IsSome(a.preferences)
  \/ v # "part_000" /\ ~IsSome(Get(a.preferences).dealbreakers)

\* the text of the q parameter that searchGoogleBooks sends, before encodeURIComponent;
\* a template literal renders null and undefined as the words "null" and "undefined"
Q_subject == <<" ", "s", "u", "b", "j", "e", "c", "t", ":", "f", "i", "c", "t", "i", "o", "n">>
Q_range == <<"2", "0", "2", "0", ".", ".", "2", "0", "2", "6">>
Q_before == <<"b", "e", "f", "o", "r", "e", ":">>
Q_before2010 == Q_before \o <<"2", "0", "1", "0">>
Q_intitle == <<"i", "n", "t", "i", "t", "l", "e", ":">>
Q_inauthor == <<"i", "n", "a", "u", "t", "h", "o", "r", ":">>
P_recent == <<"r", "e", "c", "e", "n", "t">>
P_classic == <<"c", "l", "a", "s", "s", "i", "c">>
dateFilter(v, publication) ==
  CASE v = "part_000" /\ publication = P_recent -> <<"+">> \o Q_range
    [] v = "part_000" /\ publication = P_classic -> <<"+">> \o Q_before2010
    [] v = "part_001" /\ publication = P_recent -> <<"+">> \o Q_intitle \o Q_range
    [] v = "part_001" /\ publication = P_classic -> <<"+">> \o Q_inauthor \o Q_before2010
    [] OTHER -> <<>>
\* fullQuery with the qualifiers of recent and classic exchanged
fullQuery_swapped(v, query, publication) ==
  IF v \in {"part_000", "part_001"}
  THEN trim(query \o <<" ">>
            \o dateFilter(v, IF publication = P_recent THEN P_classic
                             ELSE IF publication = P_classic THEN P_recent ELSE publication)
            \o Q_subject)
  ELSE query \o Q_subject
fullQuery(v, query, publication) ==
  IF v \in {"part_000", "part_001"}
  THEN trim(query \o <<" ">> \o dateFilter(v, publication) \o Q_subject)
  ELSE query \o Q_subject

\* searchGoogleBooks without the || [] for a body that has no items
searchGoogleBooks_strict(v, reply) ==
  IF reply.kind = "error" \/ ~IsSome(reply.items) THEN [threw |-> TRUE, value |-> <<>>]
  ELSE [threw |-> FALSE, value |-> Get(reply.items)]
\* searchGoogleBooks catching a failed call and returning no books
searchGoogleBooks_swallow(v, reply) ==
  [threw |-> FALSE, value |-> IF IsSome(reply.items) THEN Get(reply.items) ELSE <<>>]
\* searchGoogleBooks: response.data.items || [], or the call throws
searchGoogleBooks(v, reply) ==
  IF reply.kind = "error" THEN [threw |-> TRUE, value |-> <<>>]
  ELSE [threw |-> FALSE, value |-> IF IsSome(reply.items) THEN Get(reply.items) ELSE <<>>]

(***************************************************************************)
(* Response assembler                                                      *)
(***************************************************************************)
\* novels.find(b => b.volumeInfo.title.toLowerCase().includes(recommendation.title.toLowerCase()))
\* part_000 guards the record's title with ?. ; the other variants dereference it
\* findLast instead of find: the last record whose title contains the chosen title
RECURSIVE findMatch_last(_, _, _)
findMatch_last(v, books, title) ==
  IF Len(books) = 0 THEN [threw |-> FALSE, value |-> None]
  ELSE LET b == books[Len(books)]
           rest == SubSeq(books, 1, Len(books) - 1)
       IN IF NullishStr(b.title)
          THEN IF v = "part_000" THEN findMatch_last(v, rest, title)
               ELSE [threw |-> TRUE, value |-> None]
          ELSE IF NullishStr(title) THEN [threw |-> TRUE, value |-> None]
          ELSE IF includes(toLowerCase(b.title), toLowerCase(title))
               THEN [threw |-> FALSE, value |-> Some(b)]
               ELSE findMatch_last(v, rest, title)
RECURSIVE findMatch(_, _, _)
findMatch(v, books, title) ==
  IF Len(books) = 0 THEN [threw |-> FALSE, value |-> None]
  ELSE LET b == Head(books)
       IN IF NullishStr(b.title)
          THEN IF v = "part_000" THEN findMatch(v, Tail(books), title)
               ELSE [threw |-> TRUE, value |-> None]
          ELSE IF NullishStr(title) THEN [threw |-> TRUE, value |-> None]
          ELSE IF includes(toLowerCase(b.title), toLowerCase(title))
               THEN [threw |-> FALSE, value |-> Some(b)]
               ELSE findMatch(v, Tail(books), title)

H_http == <<"h", "t", "t", "p", ":", "/", "/">>
H_https == <<"h", "t", "t", "p", "s", ":", "/", "/">>
\* a || b for string-valued fields
orStr(a, b) == IF TruthyStr(a) THEN a ELSE b
linkOf(links, size) == IF IsSome(links) THEN Get(links)[size] ELSE Undefined
imageUrl(v, book) ==
  LET links == book.imageLinks
      thumb == linkOf(links, "thumbnail")
      chain == orStr(linkOf(links, "extraLarge"), orStr(linkOf(links, "large"),
                 orStr(linkOf(links, "medium"), thumb)))
      chain1 == orStr(linkOf(links, "extraLarge"), orStr(linkOf(links, "large"),
                  orStr(linkOf(links, "medium"), orStr(thumb, linkOf(links, "smallThumbnail")))))
      secure(u) == IF TruthyStr(u) THEN replace(u, H_http, H_https) ELSE u
  IN CASE v = "index_a" -> thumb
       [] v = "index_b" -> IF NullishStr(thumb) THEN Undefined ELSE replace(thumb, H_http, H_https)
       [] v = "part_001" -> secure(chain1)
       [] OTHER -> secure(chain)
\* if (!x) x = y  in index.js,  x ??= y  in part_000 and part_001
fillNum(v, x, y) ==
  IF v \in {"index_a", "index_b"} THEN (IF TruthyNum(x) THEN x ELSE y)
  ELSE (IF NullishNum(x) THEN y ELSE x)
fillStr(v, x, y) ==
  IF v \in {"index_a", "index_b"} THEN (IF TruthyStr(x) THEN x ELSE y)
  ELSE (IF NullishStr(x) THEN y ELSE x)
enrich(v, rec, match) ==
  IF ~IsSome(match) THEN rec
  ELSE LET b == Get(match)
       IN [rec EXCEPT !.imageUrl = imageUrl(v, b),
                      !.previewLink = b.previewLink,
                      !.buyLink = IF v = "part_001" THEN b.buyLink ELSE rec.buyLink,
                      !.pageCount = fillNum(v, rec.pageCount, b.pageCount),
                      !.publishedDate = fillStr(v, rec.publishedDate, b.publishedDate),
                      !.rating = fillNum(v, rec.rating, b.averageRating)]

(***************************************************************************)
(* Inputs: request bodies and upstream replies                             *)
(***************************************************************************)
S_Fiction == <<"F", "i", "c", "t", "i", "o", "n">>
S_Romance == <<"R", "o", "m", "a", "n", "c", "e">>
S_Biography == <<"B", "i", "o", "g", "r", "a", "p", "h", "y">>
T_Dune == <<"D", "u", "n", "e">>
T_dune == <<"d", "u", "n", "e">>
T_DUNE2 == <<"D", "U", "N", "E", " ", "2">>
T_Emma == <<"E", "m", "m", "a">>
T_Jobs == <<"J", "o", "b", "s">>
T_Atlas == <<"A", "t", "l", "a", "s">>
T_Zorba == <<"Z", "o", "r", "b", "a">>
T_Four == <<"F", "o", "u", "r">>
U_httpL == <<"h", "t", "t", "p", ":", "/", "/", "l">>
U_httpT == <<"h", "t", "t", "p", ":", "/", "/", "t">>
U_httpS == <<"h", "t", "t", "p", ":", "/", "/", "s">>
U_httpsT == <<"h", "t", "t", "p", "s", ":", "/", "/", "t">>
D_1965 == <<"1", "9", "6", "5">>
D_2001 == <<"2", "0", "0", "1">>
Q_sad == <<"s", "a", "d">>
Q_fiction == <<"f", "i", "c", "t", "i", "o", "n">>
G_romance == <<"r", "o", "m", "a", "n", "c", "e">>
S_When == <<"W", "h", "e", "n", "?">>
M_hi == <<"h", "i">>
M_Another == <<"A", "n", "o", "t", "h", "e", "r", " ", "o", "n", "e">>
M_MORE == <<" ", "M", "O", "R", "E", " ">>
M_more_info == <<"m", "o", "r", "e", " ", "i", "n", "f", "o">>
M_next == <<"N", "e", "x", "t", "!">>

\* catalog records
B_Dune == Book(T_Dune, Some(<<S_Fiction>>), NoNum, NoNum,
               Some([NoLinks EXCEPT !.large = U_httpL, !.thumbnail = U_httpT]), 412, D_1965)
B_Dune2 == Book(T_DUNE2, Some(<<S_Fiction>>), 3, 10, None, NoNum, Undefined)
B_Emma == Book(T_Emma, Some(<<S_Romance>>), 5, NoNum,
               Some([NoLinks EXCEPT !.smallThumbnail = U_httpS]), 0, D_2001)
B_Untitled == Book(Undefined, Some(<<S_Fiction>>), NoNum, NoNum,
                   Some([NoLinks EXCEPT !.thumbnail = U_httpsT]), 100, Undefined)
B_Jobs == Book(T_Jobs, Some(<<S_Biography, S_Fiction>>), NoNum, 900, None, 600, D_2001)
B_Atlas == Book(T_Atlas, None, 3, 1000, None, 50, Undefined)
B_Four == Book(T_Four, None, PopularRating, NoNum, None, NoNum, Undefined)
Books == {B_Dune, B_Dune2, B_Emma, B_Untitled, B_Jobs, B_Atlas}

\* the longest item list among the catalog replies that are enumerated
MaxItems == 2
RECURSIVE SeqsUpTo(_, _)
SeqsUpTo(S, n) ==
  IF n = 0 THEN {<<>>}
  ELSE LET shorter == SeqsUpTo(S, n - 1)
       IN shorter \cup {Append(q, x) : q \in {t \in shorter : Len(t) = n - 1}, x \in S}
\* a page of results longer than the selector's limit, even after filtering: the catalog
\* is asked for maxResults=25 (20 in index.js)
LongItems ==
  [i \in 1..(FormatLimit + 3) |->
     CASE i = 2 -> B_Atlas
       [] i = 3 -> B_Four
       [] i = FormatLimit + 3 -> B_Dune
       [] OTHER -> IF i % 2 = 0 THEN B_Emma ELSE B_Dune2]
CatalogReplies ==
  {CatalogReply("error", None), CatalogReply("ok", None), CatalogReply("ok", Some(LongItems))}
    \cup {CatalogReply("ok", Some(q)) : q \in SeqsUpTo(Books, MaxItems)}

\* analyses the extractor may return
A_ask == [NoAnalysis EXCEPT !.hasBasicInfo = "true", !.genre = G_romance,
                            !.preferences = Prefs(Null, Some(<<>>)),
                            !.readyToRecommend = "false", !.question = S_When,
                            !.searchQuery = Null]
A_askNoPrefs == [NoAnalysis EXCEPT !.readyToRecommend = "false", !.question = S_When]
A_askNoQuestion == [NoAnalysis EXCEPT !.preferences = Prefs(Undefined, None), !.question = Null]
A_ready == [NoAnalysis EXCEPT !.hasBasicInfo = "true", !.genre = G_romance, !.mood = Q_sad,
                              !.preferences = Prefs(P_recent, Some(<<>>)),
                              !.readyToRecommend = "true", !.question = Null,
                              !.searchQuery = Q_sad]
A_classic == [A_ready EXCEPT !.preferences = Prefs(P_classic, None)]
A_readyNoPrefs == [NoAnalysis EXCEPT !.readyToRecommend = "true", !.searchQuery = Q_sad]
A_readyNoDeal == [NoAnalysis EXCEPT !.preferences = Prefs(Undefined, None),
                                    !.readyToRecommend = "true"]
Analyses == {A_ask, A_askNoPrefs, A_askNoQuestion, A_ready, A_classic, A_readyNoPrefs, A_readyNoDeal}

\* recommendations the selector may return
R_dune == Rec(T_dune, NoNum, Null, NoNum)
R_Dune == Rec(T_Dune, 300, D_2001, 5)
R_Emma == Rec(T_Emma, 0, <<>>, 0)
R_Zorba == Rec(T_Zorba, 300, Null, 0)
R_empty == Rec(<<>>, NoNum, Undefined, NoNum)
R_untitled == Rec(Undefined, NoNum, Null, NoNum)
Recs == {R_dune, R_Dune, R_Emma, R_Zorba, R_empty, R_untitled}

\* texts of the generative model around a JSON value x
Raw(x) == <<Json(x)>>
Fenced(x) == <<Tok("ws"), Tok("fence_json"), Tok("ws"), Json(x), Tok("ws"), Tok("fence"), Tok("ws")>>
Chatty(x) == <<Tok("junk"), Tok("fence_json"), Json(x), Tok("fence")>>
ModelReplies(values, fenced) ==
  {ModelReply("error", <<>>), ModelReply("malformed", <<>>),
   ModelReply("text", <<JsonNull>>), ModelReply("text", <<Tok("fence")>>),
   ModelReply("text", <<Tok("junk")>>)}
    \cup {ModelReply("text", Raw(x)) : x \in values}
    \cup {ModelReply("text", Fenced(x)) : x \in fenced}
    \cup {ModelReply("text", Chatty(x)) : x \in fenced}
ExtractorReplies == ModelReplies(Analyses, {A_ask, A_ready})
SelectorReplies == ModelReplies(Recs, {R_dune})

\* conversation turns and histories the caller may send
UserTurn(text) == Turn(TRUE, "undefined", text, None, None)
BotTurn(type, rec, echo) == Turn(FALSE, type, <<"o", "k">>, rec, echo)
RecTurn(title, echo) == BotTurn("recommendation", Some(Rec(title, 300, D_1965, 4)), echo)
Histories ==
  {<<>>,
   <<UserTurn(M_hi), RecTurn(T_Dune, Some(A_ready))>>,
   <<RecTurn(T_Dune, Some(echoRecommendation("part_000", A_ready))), BotTurn("question", None, None)>>,
   <<RecTurn(T_Dune, None)>>,
   <<RecTurn(<<>>, Some(A_ready))>>,
   <<RecTurn(T_Emma, Some(A_ready)), RecTurn(T_dune, Some(A_readyNoPrefs))>>,
   <<RecTurn(Undefined, Some(A_readyNoDeal))>>,
   <<BotTurn("recommendation", None, Some(A_ready))>>,
   <<BotTurn("question", Some(Rec(T_Dune, 300, D_1965, 4)), Some(A_ready))>>}
Bodies ==
  {Body(Undefined, Some(<<UserTurn(M_hi)>>)), Body(<<>>, None), Body(M_hi, None),
   Body(M_more_info, Some(<<UserTurn(M_hi), RecTurn(T_Dune, Some(A_ready))>>))}
    \cup {Body(M_Another, Some(h)) : h \in Histories}
    \cup {Body(M_MORE, Some(<<UserTurn(M_hi), RecTurn(T_Dune, Some(A_ready))>>)),
          Body(M_next, Some(<<RecTurn(T_Dune, Some(A_ready))>>))}

(***************************************************************************)
(* Outbound calls and the start of a request                             *)
(***************************************************************************)
ExtractorCall(transcript) ==
  Call("extractor", Undefined, Undefined, <<>>, Undefined, transcript, Undefined)
\* searchGoogleBooks(query, publication); the services of index.js take the query only
CatalogCall(v, query, publication) ==
  LET given == IF v \in {"part_000", "part_001"} THEN publication ELSE Undefined
  IN Call("catalog", query, given, <<>>, Undefined, <<>>, fullQuery(v, query, given))
SelectorCall(books, excluded) ==
  Call("selector", Undefined, Undefined, books, excluded, <<>>, Undefined)

\* a transcript built from the user's turns only
fullConversation_userTurns(history, message) ==
  LET mine == SelectSeq(history, LAMBDA m : m.isUser)
  IN [i \in 1..Len(mine) |-> Line("User", mine[i].text)] \o <<Line("User", message)>>
\* [...history.map(m => `${m.isUser ? 'User' : 'Assistant'}: ${m.text}`), `User: ${message}`]
fullConversation(history, message) ==
  [i \in 1..Len(history) |-> Line(IF history[i].isUser THEN "User" ELSE "Assistant", history[i].text)]
    \o <<Line("User", message)>>

Init ==
  /\ variant \in Variants
  /\ pc = [r \in Reqs |-> "idle"]
  /\ body = [r \in Reqs |-> Body(Undefined, None)]
  /\ analysis = [r \in Reqs |-> None]
  /\ shortcut = [r \in Reqs |-> FALSE]
  /\ excludedTitle = [r \in Reqs |-> Undefined]
  /\ novels = [r \in Reqs |-> <<>>]
  /\ sent = [r \in Reqs |-> <<>>]
  /\ calls = [r \in Reqs |-> <<>>]
  /\ replies = [r \in Reqs |-> <<>>]
  /\ mock = None

\* a catch block that logs the error and sends nothing: the request is never answered
Respond_logsErrors(r, response) ==
  /\ sent' = [sent EXCEPT ![r] = IF response.status = 500 THEN @ ELSE Append(@, response)]
  /\ pc' = [pc EXCEPT ![r] = IF response.status = 500 THEN "failed" ELSE "done"]
\* the 400 response written without return: the handler runs on into message.toLowerCase()
\* or history.map and the catch block writes a second response
Respond_withoutReturn(r, response) ==
  /\ sent' = [sent EXCEPT ![r] = IF response.status = 400
                                 THEN Append(Append(@, response), ErrorResponse(variant))
                                 ELSE Append(@, response)]
  /\ pc' = [pc EXCEPT ![r] = "done"]
\* res.json(response): the handler returns
Respond(r, response) ==
  /\ sent' = [sent EXCEPT ![r] = Append(@, response)]
  /\ pc' = [pc EXCEPT ![r] = "done"]
\* the awaited call of request r settles with reply
Resume(r, api, reply) == replies' = [replies EXCEPT ![r] = Append(@, [api |-> api, reply |-> reply])]
\* the catalog search started together with the selector call instead of before it
Await_fanOut(r, stage, call) ==
  /\ calls' = [calls EXCEPT ![r] = IF stage = "Searching"
                                   THEN Append(Append(@, call), SelectorCall(<<>>, Null))
                                   ELSE Append(@, call)]
  /\ pc' = [pc EXCEPT ![r] = stage]
\* await of an outbound call: the handler is suspended until the reply
Await(r, stage, call) ==
  /\ calls' = [calls EXCEPT ![r] = Append(@, call)]
  /\ pc' = [pc EXCEPT ![r] = stage]

(***************************************************************************)
(* app.post('/api/chat'): from the arrival of the request to its first     *)
(* await or response                                                       *)
(***************************************************************************)
history(b) == IF IsSome(b.conversationHistory) THEN Get(b.conversationHistory) ELSE <<>>
\* the "another" branch entered for any message that follows a recommendation
takesShortcut_anyMessage(v, b) ==
  /\ v = "part_000"
  /\ Len(history(b)) > 0
  /\ LET last == lastBotMsg(history(b))
     IN IsSome(last) /\ IsSome(Get(last).recommendation) /\ IsSome(Get(last).analysis)
\* the "another" branch is taken: part_000 only
takesShortcut(v, b) ==
  /\ v = "part_000"
  /\ wantsAnother(b.message)
  /\ Len(history(b)) > 0
  /\ LET last == lastBotMsg(history(b))
     IN IsSome(last) /\ IsSome(Get(last).recommendation) /\ IsSome(Get(last).analysis)
\* a validation that only rejects the empty string
missingMessage_emptyOnly(b) == b.message = <<>>
\* if (!message)
missingMessage(b) == ~TruthyStr(b.message)
Receive(r, b) ==
  /\ pc[r] = "idle"
  /\ body' = [body EXCEPT ![r] = b]
  /\ IF missingMessage(b)
     THEN /\ Respond(r, ValidationResponse(variant))
          /\ UNCHANGED <<analysis, shortcut, excludedTitle, calls>>
     ELSE IF takesShortcut(variant, b)
     THEN LET last == Get(lastBotMsg(history(b)))
              prevAnalysis == Get(last.analysis)
          IN /\ analysis' = [analysis EXCEPT ![r] = Some(prevAnalysis)]
             /\ shortcut' = [shortcut EXCEPT ![r] = TRUE]
             /\ excludedTitle' = [excludedTitle EXCEPT ![r] = Get(last.recommendation).title]
             /\ Await(r, "Searching",
                      CatalogCall(variant, orStr(prevAnalysis.searchQuery, Q_fiction),
                                  IF IsSome(prevAnalysis.preferences)
                                  THEN Get(prevAnalysis.preferences).publication ELSE Undefined))
             /\ UNCHANGED sent
     ELSE /\ Await(r, "Extracting", ExtractorCall(fullConversation(history(b), b.message)))
          /\ UNCHANGED <<analysis, shortcut, excludedTitle, sent>>
  /\ UNCHANGED <<variant, novels, replies, mock>>

(***************************************************************************)
(* The handler resumes with the extractor's reply                          *)
(***************************************************************************)
\* a TypeError between the extractor's return and the next await or response:
\* JSON null has no readyToRecommend; part_001 logs analysis.preferences.publication
\* before the gate; part_000 and part_001 pass analysis.preferences.publication to the search
\* the readiness gate on a flag the extractor sets earlier than readyToRecommend
needsInput_hasBasicInfo(a) == a.hasBasicInfo # "true"
\* if (!analysis.readyToRecommend)
needsInput(a) == a.readyToRecommend # "true"
gateThrows(v, parsed) ==
  \/ ~IsSome(parsed)
  \/ /\ ~IsSome(Get(parsed).preferences)
     /\ \/ v = "part_001"
        \/ v = "part_000" /\ Get(parsed).readyToRecommend = "true"
ExtractorReturns(r, reply) ==
  /\ pc[r] = "Extracting"
  /\ Resume(r, "extractor", reply)
  /\ LET result == analyzeConversation(variant, reply)
     IN IF result.threw \/ gateThrows(variant, result.value)
        THEN /\ Respond(r, ErrorResponse(variant))
             /\ UNCHANGED <<analysis, calls>>
        ELSE LET a == Get(result.value)
             IN /\ analysis' = [analysis EXCEPT ![r] = Some(a)]
                /\ IF needsInput(a)
                   THEN /\ Respond(r, QuestionResponse(variant, a))
                        /\ UNCHANGED calls
                   ELSE /\ Await(r, "Searching",
                                 CatalogCall(variant, a.searchQuery,
                                             IF IsSome(a.preferences)
                                             THEN Get(a.preferences).publication ELSE Undefined))
                        /\ UNCHANGED sent
  /\ UNCHANGED <<variant, body, shortcut, excludedTitle, novels, mock>>

(***************************************************************************)
(* The handler resumes with the catalog's reply                            *)
(***************************************************************************)
\* the emptiness test left out: the selector is called whatever the filter kept
noCandidates_unchecked(books) == FALSE
\* if (novels.length === 0)
noCandidates(books) == Len(books) = 0
CatalogReturns(r, reply) ==
  /\ pc[r] = "Searching"
  /\ Resume(r, "catalog", reply)
  /\ LET result == searchGoogleBooks(variant, reply)
         a == Get(analysis[r])
         filtered == filterNovelsOnly(variant, result.value)
         kept == IF shortcut[r] THEN excludeTitle(filtered, excludedTitle[r]) ELSE filtered
     IN IF result.threw
        THEN /\ Respond(r, ErrorResponse(variant))
             /\ UNCHANGED <<novels, calls>>
        ELSE /\ novels' = [novels EXCEPT ![r] = kept]
             /\ IF noCandidates(kept)
                THEN /\ Respond(r, IF shortcut[r] THEN RunOutResponse
                                   ELSE NoResultsResponse(variant, a))
                     /\ UNCHANGED calls
                ELSE IF promptThrows(variant, a)
                THEN /\ Respond(r, ErrorResponse(variant))
                     /\ UNCHANGED calls
                ELSE /\ Await(r, "Selecting",
                              SelectorCall(formatBooksForGemini(variant, kept),
                                           IF shortcut[r] THEN excludedTitle[r] ELSE Null))
                     /\ UNCHANGED sent
  /\ UNCHANGED <<variant, body, analysis, shortcut, excludedTitle, mock>>

(***************************************************************************)
(* The handler resumes with the selector's reply                           *)
(***************************************************************************)
\* the candidate list kept in a variable of the module instead of the handler: a request
\* resumed after another one has filtered finds the other request's list
candidates_shared(r) ==
  LET others == {q \in Reqs : q # r /\ Len(novels[q]) > 0}
  IN IF others = {} THEN novels[r] ELSE novels[CHOOSE q \in others : TRUE]
\* const novels: a local of the handler's invocation
candidates(r) == novels[r]
SelectorReturns(r, reply) ==
  /\ pc[r] = "Selecting"
  /\ Resume(r, "selector", reply)
  /\ LET result == getGeminiRecommendation(variant, reply)
         a == Get(analysis[r])
         title == IF IsSome(result.value) THEN Get(result.value).title ELSE Undefined
         found == findMatch(variant, candidates(r), title)
     IN IF result.threw \/ found.threw
        THEN Respond(r, ErrorResponse(variant))
        ELSE Respond(r, RecommendationResponse(
                          IF IsSome(result.value)
                          THEN Some(enrich(variant, Get(result.value), found.value))
                          ELSE None,
                          IF shortcut[r] THEN a ELSE echoRecommendation(variant, a)))
  /\ UNCHANGED <<variant, body, analysis, shortcut, excludedTitle, novels, calls, mock>>

(***************************************************************************)
(* One request against any of the services, the upstream replying freely   *)
(***************************************************************************)
Next ==
  \/ \E b \in Bodies : Receive(1, b)
  \/ \E reply \in ExtractorReplies : ExtractorReturns(1, reply)
  \/ \E reply \in CatalogReplies : CatalogReturns(1, reply)
  \/ \E reply \in SelectorReplies : SelectorReturns(1, reply)
Spec == Init /\ [][Next]_vars

(***************************************************************************)
(* Replay: the same request sent NumReqs times, in any interleaving, to a  *)
(* service whose upstream is mocked with fixed replies                     *)
(***************************************************************************)
Mock(b, extractor, catalog, selector) ==
  [body |-> b, extractor |-> extractor, catalog |-> catalog, selector |-> selector]
ReplayMocks ==
  {Mock(b, e, c, sel) :
     b \in Bodies,
     e \in {ModelReply("error", <<>>), ModelReply("text", Raw(A_ask)),
            ModelReply("text", Fenced(A_ready)), ModelReply("text", Raw(A_readyNoDeal))},
     c \in {CatalogReply("error", None), CatalogReply("ok", None),
            CatalogReply("ok", Some(<<B_Dune, B_Emma>>)),
            CatalogReply("ok", Some(<<B_Untitled, B_Dune2>>))},
     sel \in {ModelReply("text", Chatty(R_dune)), ModelReply("text", Raw(R_dune)),
              ModelReply("text", Raw(R_Emma)), ModelReply("text", Raw(R_Zorba))}}
InitReplay ==
  /\ variant \in Variants
  /\ pc = [r \in Reqs |-> "idle"]
  /\ body = [r \in Reqs |-> Body(Undefined, None)]
  /\ analysis = [r \in Reqs |-> None]
  /\ shortcut = [r \in Reqs |-> FALSE]
  /\ excludedTitle = [r \in Reqs |-> Undefined]
  /\ novels = [r \in Reqs |-> <<>>]
  /\ sent = [r \in Reqs |-> <<>>]
  /\ calls = [r \in Reqs |-> <<>>]
  /\ replies = [r \in Reqs |-> <<>>]
  /\ mock \in {Some(m) : m \in ReplayMocks}
NextReplay ==
  \E r \in Reqs :
    \/ Receive(r, Get(mock).body)
    \/ ExtractorReturns(r, Get(mock).extractor)
    \/ CatalogReturns(r, Get(mock).catalog)
    \/ SelectorReturns(r, Get(mock).selector)
SpecReplay == InitReplay /\ [][NextReplay]_vars

(***************************************************************************)
(* Concurrent clients: every request slot takes its own request and its    *)
(* own upstream replies, in any interleaving; a client may also answer a   *)
(* recommendation with "another", sending back the turn it was given       *)
(***************************************************************************)
PairBodies ==
  {Body(M_hi, None),
   Body(M_Another, Some(<<RecTurn(T_Emma, Some(A_ready))>>)),
   Body(M_next, Some(<<RecTurn(T_Dune, Some(A_classic))>>))}
PairExtractorReplies ==
  {ModelReply("error", <<>>), ModelReply("text", Raw(A_ask)), ModelReply("text", Fenced(A_ready))}
PairCatalogReplies ==
  {CatalogReply("error", None), CatalogReply("ok", Some(<<B_Dune, B_Emma>>)),
   CatalogReply("ok", Some(<<B_Dune2>>))}
PairSelectorReplies ==
  {ModelReply("text", <<Tok("junk")>>), ModelReply("text", Raw(R_dune)),
   ModelReply("text", Raw(R_Emma))}
\* the turn a client keeps of a response: { isUser: false, type, text, recommendation, analysis }
AsTurn(response) ==
  Turn(FALSE, response.type, <<"o", "k">>, response.recommendation, response.analysis)
\* the client of the finished request q asks for another book in request r
FollowUp(r, q) ==
  /\ r # q
  /\ pc[q] = "done"
  /\ Len(sent[q]) = 1 /\ sent[q][1].type = "recommendation"
  /\ Receive(r, Body(M_Another, Some(<<UserTurn(body[q].message), AsTurn(sent[q][1])>>)))
NextPair ==
  \E r \in Reqs :
    \/ \E b \in PairBodies : Receive(r, b)
    \/ \E q \in Reqs : FollowUp(r, q)
    \/ \E reply \in PairExtractorReplies : ExtractorReturns(r, reply)
    \/ \E reply \in PairCatalogReplies : CatalogReturns(r, reply)
    \/ \E reply \in PairSelectorReplies : SelectorReturns(r, reply)
SpecPair == Init /\ [][NextPair]_vars

(***************************************************************************)
(* Properties                                                              *)
(***************************************************************************)
\* C1: for every analysis the extractor returns with readyToRecommend = false, whatever
\* its other fields hold or omit, the handler answers with exactly one response, of type
\* "question", whose message is the analysis's question unchanged.
C1_QuestionEchoesAnalysis ==
  \A r \in Reqs :
    (pc[r] = "done" /\ Len(replies[r]) > 0 /\ replies[r][1].api = "extractor") =>
      LET result == analyzeConversation(variant, replies[r][1].reply)
      IN (~result.threw /\ IsSome(result.value)
          /\ Get(result.value).readyToRecommend = "false") =>
           /\ Len(sent[r]) = 1
           /\ sent[r][1].type = "question"
           /\ sent[r][1].message = Get(result.value).question

C3_MissingMessageIs400 ==
  \A r \in Reqs :
    (pc[r] # "idle" /\ body[r].message = Undefined) =>
      /\ pc[r] = "done"
      /\ Len(sent[r]) = 1
      /\ sent[r][1].status = 400
      /\ TruthyStr(sent[r][1].error)
      /\ calls[r] = <<>>
\* C3 witness: a request without message was received and answered
C3_Witness ==
  \E r \in Reqs : pc[r] = "done" /\ body[r].message = Undefined /\ Len(sent[r]) = 1
                  /\ IsSome(body[r].conversationHistory)

C5_StageFailureAborts ==
  \A r \in Reqs :
    (pc[r] = "done"
     /\ \E i \in 1..Len(replies[r]) : replies[r][i].reply.kind \in {"error", "malformed"}) =>
      /\ Len(sent[r]) = 1
      /\ sent[r][1].status = 500
      /\ TruthyStr(sent[r][1].error)
      /\ sent[r][1].type = "undefined"
      /\ sent[r][1].message = Undefined /\ sent[r][1].recommendation = None
\* C5 witness: a catalog call failed after the extractor had succeeded
C5_Witness ==
  \E r \in Reqs :
    /\ pc[r] = "done" /\ Len(replies[r]) = 2 /\ ~shortcut[r]
    /\ replies[r][2].api = "catalog" /\ replies[r][2].reply.kind = "error"

\* C6: if the text the generative model returns, to the extractor or to the selector, is
\* not one JSON value once the code-fence markers are taken out, the request ends with a
\* 500 error response and neither a question nor a recommendation.
C6_UnparsableTextIs500 ==
  \A r \in Reqs :
    (pc[r] = "done"
     /\ \E i \in 1..Len(replies[r]) :
          /\ replies[r][i].api \in {"extractor", "selector"}
          /\ replies[r][i].reply.kind = "text"
          /\ LET rest == SelectSeq(replies[r][i].reply.text,
                                   LAMBDA t : t.k \notin {"fence_json", "fence", "ws"})
             IN ~(Len(rest) = 1 /\ rest[1].k = "json")) =>
      /\ Len(sent[r]) = 1
      /\ sent[r][1].status = 500
      /\ TruthyStr(sent[r][1].error)
      /\ sent[r][1].type = "undefined"
\* C6 witness: the selector's text held a JSON value preceded by other text
C6_Witness ==
  \E r \in Reqs :
    /\ pc[r] = "done" /\ Len(replies[r]) > 0
    /\ replies[r][Len(replies[r])].api = "selector"
    /\ replies[r][Len(replies[r])].reply.kind = "text"
    /\ Len(replies[r][Len(replies[r])].reply.text) > 1
    /\ replies[r][Len(replies[r])].reply.text[1].k = "junk"

\* C7: when the title the selector chose is contained, case-insensitively, in the title of
\* no filtered catalog record, the request still ends with a response of type
\* "recommendation" carrying the selector's title, author and reasoning, with the image URL
\* and the preview link left unset, and no error is raised.
C7_NoMatchFailsSilently ==
  \A r \in Reqs :
    (pc[r] = "done" /\ Len(replies[r]) > 0 /\ replies[r][Len(replies[r])].api = "selector") =>
      LET result == getGeminiRecommendation(variant, replies[r][Len(replies[r])].reply)
          rec == Get(result.value)
      IN (/\ ~result.threw /\ IsSome(result.value) /\ ~NullishStr(rec.title)
          /\ \A k \in 1..Len(novels[r]) :
               NullishStr(novels[r][k].title)
               \/ ~includes(toLowerCase(novels[r][k].title), toLowerCase(rec.title))) =>
           /\ Len(sent[r]) = 1
           /\ sent[r][1].status = 200 /\ sent[r][1].type = "recommendation"
           /\ IsSome(sent[r][1].recommendation)
           /\ Get(sent[r][1].recommendation) = rec
           /\ rec.imageUrl = Undefined /\ rec.previewLink = Undefined

\* C8: when a catalog record is matched, each of page count, publication date and rating
\* in the response is the selector's value if that value is not null, and the matched
\* record's value otherwise; a non-null value of the selector, 0 included, is kept.
C8_FillsOnlyNullFields ==
  \A r \in Reqs :
    (pc[r] = "done" /\ Len(sent[r]) = 1 /\ sent[r][1].type = "recommendation"
     /\ IsSome(sent[r][1].recommendation)) =>
      LET rec == Get(getGeminiRecommendation(variant, replies[r][Len(replies[r])].reply).value)
          found == findMatch(variant, novels[r], rec.title)
          out == Get(sent[r][1].recommendation)
      IN IsSome(found.value) =>
           /\ out.pageCount = (IF rec.pageCount # NoNum THEN rec.pageCount
                               ELSE Get(found.value).pageCount)
           /\ out.publishedDate = (IF ~NullishStr(rec.publishedDate) THEN rec.publishedDate
                                   ELSE Get(found.value).publishedDate)
           /\ out.rating = (IF rec.rating # NoNum THEN rec.rating
                            ELSE Get(found.value).averageRating)

\* C9: when a catalog record is matched, the image URL of the recommendation is the
\* largest cover link the record has (extraLarge, then large, then medium, then thumbnail),
\* in its secure form, and it never begins with http://.
C9_LargestSecureImage ==
  \A r \in Reqs :
    (pc[r] = "done" /\ Len(sent[r]) = 1 /\ sent[r][1].type = "recommendation"
     /\ IsSome(sent[r][1].recommendation)) =>
      LET rec == Get(getGeminiRecommendation(variant, replies[r][Len(replies[r])].reply).value)
          found == findMatch(variant, novels[r], rec.title)
          out == Get(sent[r][1].recommendation)
          links == Get(Get(found.value).imageLinks)
          sizes == <<"extraLarge", "large", "medium", "thumbnail">>
          has == {i \in 1..4 : TruthyStr(links[sizes[i]])}
          best == links[sizes[CHOOSE i \in has : \A j \in has : i <= j]]
      IN (IsSome(found.value) /\ IsSome(Get(found.value).imageLinks) /\ has # {}) =>
           /\ out.imageUrl \in {best, replace(best, H_http, H_https)}
           /\ SubSeq(out.imageUrl, 1, Len(H_http)) # H_http

\* C10: given the same request and fixed upstream replies, every call of the chat handler,
\* whatever the number and the interleaving of the calls, produces the same response: no
\* request changes state that another request reads.
C10_RepeatedCallsAgree ==
  \A r1, r2 \in Reqs : (pc[r1] = "done" /\ pc[r2] = "done") => sent[r1] = sent[r2]
\* C10 witness: two calls of an "another" request both ended with a recommendation
C10_Witness ==
  /\ \A r \in Reqs : pc[r] = "done" /\ shortcut[r] /\ Len(sent[r]) = 1
                     /\ sent[r][1].type = "recommendation"
  /\ body[1] = body[2]

(***************************************************************************)
(* The handler run alone: the responses of one request, computed from its  *)
(* body and the upstream replies it is given, with no other request        *)
(* around; <<>> while the replies given do not yet reach a response        *)
(***************************************************************************)
aloneSelecting(v, a, viaShortcut, kept, rs) ==
  IF Len(rs) = 0 THEN <<>>
  ELSE LET result == getGeminiRecommendation(v, rs[1].reply)
           title == IF IsSome(result.value) THEN Get(result.value).title ELSE Undefined
           found == findMatch(v, kept, title)
       IN IF result.threw \/ found.threw
          THEN <<ErrorResponse(v)>>
          ELSE <<RecommendationResponse(
                   IF IsSome(result.value) THEN Some(enrich(v, Get(result.value), found.value))
                   ELSE None,
                   IF viaShortcut THEN a ELSE echoRecommendation(v, a))>>
aloneSearching(v, a, viaShortcut, title, rs) ==
  IF Len(rs) = 0 THEN <<>>
  ELSE LET result == searchGoogleBooks(v, rs[1].reply)
           filtered == filterNovelsOnly(v, result.value)
           kept == IF viaShortcut THEN excludeTitle(filtered, title) ELSE filtered
       IN IF result.threw THEN <<ErrorResponse(v)>>
          ELSE IF Len(kept) = 0
          THEN <<IF viaShortcut THEN RunOutResponse ELSE NoResultsResponse(v, a)>>
          ELSE IF promptThrows(v, a) THEN <<ErrorResponse(v)>>
          ELSE aloneSelecting(v, a, viaShortcut, kept, Tail(rs))
runAlone(v, b, rs) ==
  IF missingMessage(b) THEN <<ValidationResponse(v)>>
  ELSE IF takesShortcut(v, b)
  THEN LET last == Get(lastBotMsg(history(b)))
       IN aloneSearching(v, Get(last.analysis), TRUE, Get(last.recommendation).title, rs)
  ELSE IF Len(rs) = 0 THEN <<>>
  ELSE LET result == analyzeConversation(v, rs[1].reply)
       IN IF result.threw \/ gateThrows(v, result.value) THEN <<ErrorResponse(v)>>
          ELSE IF needsInput(Get(result.value)) THEN <<QuestionResponse(v, Get(result.value))>>
          ELSE aloneSearching(v, Get(result.value), FALSE, Undefined, Tail(rs))

\* C11: in every interleaving of two chat requests at their awaited outbound calls, what
\* each request has answered is what the handler, run alone on that request's body with the
\* upstream replies that request received, answers.
C11_ConcurrentRequestsIndependent ==
  \A r \in Reqs :
    pc[r] # "idle" =>
      sent[r] = runAlone(variant, body[r], replies[r])
\* C11 witness: a request has answered with a recommendation enriched from its own
\* candidates while a different request, holding other candidates, awaits its selector
C11_Witness ==
  \E r1, r2 \in Reqs :
    /\ pc[r1] = "done" /\ pc[r2] = "Selecting"
    /\ body[r1] # body[r2]
    /\ novels[r1] # novels[r2] /\ Len(novels[r1]) > 0
    /\ sent[r1][1].type = "recommendation"
    /\ Get(sent[r1][1].recommendation).previewLink # Undefined

\* The stages a request has gone through, read off its outbound calls, the replies to
\* them and its response: a call to the extractor is Extracting, to the catalog Searching,
\* to the selector Selecting; a catalog reply that is read is followed by Filtering, a
\* selector reply that parses by Assembling; the response is the terminal stage.
stageOfCall(r, i) ==
  LET api == calls[r][i].api
      answered == i <= Len(replies[r])
  IN CASE api = "extractor" -> <<"Extracting">>
       [] api = "catalog" ->
            <<"Searching">> \o (IF answered /\ replies[r][i].reply.kind = "ok"
                                THEN <<"Filtering">> ELSE <<>>)
       [] OTHER ->
            <<"Selecting">> \o (IF answered /\ ~getGeminiRecommendation(variant, replies[r][i].reply).threw
                                THEN <<"Assembling">> ELSE <<>>)
RECURSIVE stagesUpTo(_, _)
stagesUpTo(r, n) == IF n = 0 THEN <<>> ELSE stagesUpTo(r, n - 1) \o stageOfCall(r, n)
terminalOf(response) ==
  CASE response.status = 400 -> "Rejected"
    [] response.status = 500 -> "Failed"
    [] response.type = "question" -> "NeedsInput"
    [] response.type = "recommendation" -> "Done"
    [] OTHER -> "NoResults"
stages(r) ==
  stagesUpTo(r, Len(calls[r]))
    \o [i \in 1..Len(sent[r]) |-> terminalOf(sent[r][i])]
IsPrefix(p, q) == Len(p) <= Len(q) /\ SubSeq(q, 1, Len(p)) = p
AllStages == <<"Extracting", "Searching", "Filtering", "Selecting", "Assembling">>

\* C12 as stated: every request with a message starts in Extracting and ends either in
\* NeedsInput right after it, or in Done after Searching, Filtering, Selecting and
\* Assembling in that order, or in NoResults after Filtering; no other sequence occurs.
C12_StateMachine ==
  \A r \in Reqs :
    (pc[r] = "done" /\ TruthyStr(body[r].message)) =>
      stages(r) \in {<<"Extracting", "NeedsInput">>,
                     AllStages \o <<"Done">>,
                     <<"Extracting", "Searching", "Filtering", "NoResults">>}
\* C12 amended: the stages of a request with a message are taken in the order Extracting,
\* Searching, Filtering, Selecting, Assembling without a gap, starting at Extracting, or at
\* Searching exactly when part_000 handles an "another" request whose history holds a
\* recommendation turn with its recommendation and analysis.  The request ends with a
\* question only right after Extracting, with a no-results answer (of type "message", or
\* "question" in index.js and part_001) only right after Filtering, with a recommendation
\* only right after Assembling, or with a 500 after any stage; it answers once.
C12_StagesInOrder ==
  \A r \in Reqs :
    (pc[r] # "idle" /\ TruthyStr(body[r].message)) =>
      LET turns == history(body[r])
          recs == {i \in 1..Len(turns) : ~turns[i].isUser /\ turns[i].type = "recommendation"}
          last == turns[CHOOSE i \in recs : \A j \in recs : j <= i]
          another == /\ variant = "part_000"
                     /\ wantsAnother(body[r].message)
                     /\ recs # {}
                     /\ IsSome(last.recommendation) /\ IsSome(last.analysis)
          path == IF another THEN Tail(AllStages) ELSE AllStages
          gone == stagesUpTo(r, Len(calls[r]))
          at == IF Len(gone) = 0 THEN "Start" ELSE gone[Len(gone)]
      IN /\ Len(gone) > 0
         /\ IsPrefix(gone, path)
         /\ Len(sent[r]) = (IF pc[r] = "done" THEN 1 ELSE 0)
         /\ pc[r] = "done" =>
              LET answer == sent[r][1]
              IN \/ answer.status = 500
                 \/ /\ answer.status = 200 /\ at = "Extracting"
                    /\ answer.type = "question" /\ answer.recommendation = None
                 \/ /\ answer.status = 200 /\ at = "Filtering"
                    /\ answer.type = (IF variant = "part_000" THEN "message" ELSE "question")
                    /\ answer.recommendation = None
                 \/ /\ answer.status = 200 /\ at = "Assembling"
                    /\ answer.type = "recommendation"
\* C12 witness: an "another" request of part_000 went from Searching to Done without
\* Extracting
C12_Witness ==
  \E r \in Reqs :
    /\ pc[r] = "done" /\ variant = "part_000"
    /\ stages(r) = Tail(AllStages) \o <<"Done">>

\* the services called by request r, in the order of the calls
apis(r) == [i \in 1..Len(calls[r]) |-> calls[r][i].api]

\* C13 as stated: a request that ended in a recommendation has made exactly the calls
\* extractor, catalog, selector, in that order, and no call of a request is issued while
\* another call of that request is awaiting its reply.
C13_ThreeCallsInOrder ==
  \A r \in Reqs :
    /\ Len(calls[r]) <= Len(replies[r]) + 1
    /\ (pc[r] = "done" /\ sent[r][1].type = "recommendation") =>
         apis(r) = <<"extractor", "catalog", "selector">>
\* C13 amended: a request that ended in a recommendation has made exactly the calls
\* extractor, catalog, selector, in that order, or, when part_000 handled it as an "another"
\* request following a recommendation, exactly the calls catalog, selector; every reply
\* received answers the call issued at the same position, and no call of a request is
\* issued while another call of that request is awaiting its reply.
C13_CallsInOrder ==
  \A r \in Reqs :
    /\ Len(replies[r]) <= Len(calls[r])
    /\ Len(calls[r]) <= Len(replies[r]) + 1
    /\ \A i \in 1..Len(replies[r]) : replies[r][i].api = calls[r][i].api
    /\ (pc[r] = "done" /\ sent[r][1].type = "recommendation") =>
         /\ Len(replies[r]) = Len(calls[r])
         /\ \/ apis(r) = <<"extractor", "catalog", "selector">>
            \/ /\ apis(r) = <<"catalog", "selector">>
               /\ variant = "part_000"
               /\ wantsAnother(body[r].message)
               /\ \E i \in 1..Len(history(body[r])) :
                    /\ ~history(body[r])[i].isUser
                    /\ history(body[r])[i].type = "recommendation"
\* C13 witness: a request answered with a recommendation after the three calls, each
\* answered before the next
C13_Witness ==
  \E r \in Reqs :
    /\ pc[r] = "done" /\ sent[r][1].type = "recommendation"
    /\ apis(r) = <<"extractor", "catalog", "selector">>
    /\ Len(replies[r]) = Len(apis(r))

\* the call answered by this reply failed: the transport failed, the body had no text,
\* or the text is not one JSON value once the fence markers are taken out
failedReply(reply) ==
  \/ reply.kind \in {"error", "malformed"}
  \/ /\ reply.kind = "text"
     /\ LET rest == SelectSeq(reply.text, LAMBDA t : t.k \notin {"fence_json", "fence", "ws"})
        IN ~(Len(rest) = 1 /\ rest[1].k = "json")

\* C14: within one request the extractor, the catalog and the selector are each called at
\* most once, and once a call has failed no further call is made: the failed call is the
\* request's last and the request ends with a 500.
C14_NoRetry ==
  \A r \in Reqs :
    /\ \A i, j \in 1..Len(calls[r]) : calls[r][i].api = calls[r][j].api => i = j
    /\ \A i \in 1..Len(replies[r]) :
         failedReply(replies[r][i].reply) =>
           /\ Len(calls[r]) = i
           /\ pc[r] = "done"
           /\ Len(sent[r]) = 1 /\ sent[r][1].status = 500
\* C14 witness: the third call of a request, to the selector, failed and the request ended
C14_Witness ==
  \E r \in Reqs :
    /\ pc[r] = "done" /\ Len(calls[r]) = 3 /\ Len(replies[r]) = 3
    /\ replies[r][3].api = "selector" /\ replies[r][3].reply.kind = "malformed"

\* the catalog calls of request r
catalogCalls(r) == SelectSeq(calls[r], LAMBDA c : c.api = "catalog")

\* C15: when a client answers a recommendation with an "another" request whose history
\* holds the recommendation turn as the server emitted it (the recommendation and the
\* analysis echoed with it), the catalog search of the "another" request is made with the
\* search query and the publication preference of the request that produced the
\* recommendation.
C15_AnotherRepeatsSearch ==
  \A r, q \in Reqs :
    (/\ r # q
     /\ pc[q] = "done" /\ sent[q][1].type = "recommendation"
     /\ body[r] = Body(M_Another, Some(<<UserTurn(body[q].message), AsTurn(sent[q][1])>>))
     /\ Len(catalogCalls(r)) > 0) =>
      /\ catalogCalls(r)[1].query = catalogCalls(q)[1].query
      /\ catalogCalls(r)[1].publication = catalogCalls(q)[1].publication

\* C16: in a request whose extractor result has readyToRecommend = false, no call to the
\* catalog service and no selector call is ever made: the extractor call stays the only
\* outbound call of the request.
C16_GateGuardsLaterStages ==
  \A r \in Reqs :
    (Len(replies[r]) > 0 /\ replies[r][1].api = "extractor") =>
      LET result == analyzeConversation(variant, replies[r][1].reply)
      IN (~result.threw /\ IsSome(result.value)
          /\ Get(result.value).readyToRecommend = "false") =>
           /\ \A i \in 1..Len(calls[r]) : calls[r][i].api = "extractor"
           /\ pc[r] = "done"
\* C16 witness: an analysis that has the basic information but is not ready was answered
\* with a question after the extractor call alone
C16_Witness ==
  \E r \in Reqs :
    /\ pc[r] = "done" /\ Len(calls[r]) = 1 /\ sent[r][1].type = "question"
    /\ IsSome(analysis[r])
    /\ Get(analysis[r]).readyToRecommend = "false" /\ Get(analysis[r]).hasBasicInfo = "true"

\* the elements of a sequence
Range(xs) == {xs[i] : i \in 1..Len(xs)}
\* what the filter is to decide for a record: its category text (the categories joined by
\* spaces, in lower case) holds a fiction keyword and no non-fiction keyword, or, in
\* part_000 and part_001, the record is popular (rating at least 4, or more than 800,
\* respectively 1000, ratings)
textOfCategories(book) ==
  IF IsSome(book.categories) THEN toLowerCase(join(Get(book.categories), <<" ">>)) ELSE <<>>
namesFiction(v, book) == \E k \in Range(fictionKeywords(v)) : includes(textOfCategories(book), k)
namesNonFiction(v, book) ==
  \E k \in Range(nonFictionKeywords(v)) : includes(textOfCategories(book), k)
popular(v, book) ==
  /\ v \in {"part_000", "part_001"}
  /\ \/ book.averageRating # NoNum /\ book.averageRating >= PopularRating
     \/ /\ book.ratingsCount # NoNum
        /\ book.ratingsCount > (IF v = "part_000" THEN PopularCount000 ELSE PopularCount001)

\* C17: of the records the catalog returned, the filter keeps, in their order, exactly
\* those whose category text holds a fiction keyword and no non-fiction keyword or, in
\* part_000 and part_001, that are popular; a record with a non-fiction keyword that is not
\* popular and a record without categories that is not popular are never kept.
C17_FilterKeepsFictionOrPopular ==
  \A r \in Reqs :
    \A i \in 1..Len(replies[r]) :
      (replies[r][i].api = "catalog" /\ replies[r][i].reply.kind = "ok" /\ ~shortcut[r]) =>
        LET items == IF IsSome(replies[r][i].reply.items)
                     THEN Get(replies[r][i].reply.items) ELSE <<>>
        IN /\ novels[r] = SelectSeq(items, LAMBDA b : (namesFiction(variant, b)
                                                         /\ ~namesNonFiction(variant, b))
                                                        \/ popular(variant, b))
           /\ \A b \in Range(items) :
                (namesNonFiction(variant, b) /\ ~popular(variant, b)) => b \notin Range(novels[r])
           /\ \A b \in Range(items) :
                (~IsSome(b.categories) /\ ~popular(variant, b)) => b \notin Range(novels[r])
\* C17 witness: of a catalog reply, a biography that also names fiction was dropped and
\* another record was kept
C17_Witness ==
  \E r \in Reqs :
    /\ ~shortcut[r] /\ Len(replies[r]) > 1 /\ replies[r][2].api = "catalog"
    /\ IsSome(replies[r][2].reply.items)
    /\ B_Jobs \in Range(Get(replies[r][2].reply.items))
    /\ B_Jobs \notin Range(novels[r])
    /\ Len(novels[r]) > 0

\* C18: however many candidates are left after filtering, the list formatted for the
\* selector call holds at most 15 books, and they are the first 15 candidates in order.
C18_SelectorGetsAtMost15 ==
  \A r \in Reqs :
    \A i \in 1..Len(calls[r]) :
      calls[r][i].api = "selector" =>
        /\ Len(calls[r][i].books) <= FormatLimit
        /\ calls[r][i].books =
             SubSeq(novels[r], 1, IF Len(novels[r]) < FormatLimit THEN Len(novels[r])
                                  ELSE FormatLimit)

\* the publication preference of the analysis request r works with
preferenceOf(r) ==
  IF IsSome(analysis[r]) /\ IsSome(Get(analysis[r]).preferences)
  THEN Get(Get(analysis[r]).preferences).publication ELSE Undefined
\* the text sent to the catalog is built from the query and the preference as claimed:
\* outer white space aside it is the query, then a date-range qualifier (2020..2026)
\* exactly when the preference is recent, a "before:" qualifier exactly when it is classic
\* and nothing but white space otherwise, then the subject qualifier
builtFrom(text, query, preference) ==
  LET whole == trim(text)
      given == trim(query)
      subject == Tail(Q_subject)
      middle == SubSeq(whole, Len(given) + 1, Len(whole) - Len(subject))
  IN /\ Len(whole) >= Len(given) + Len(subject)
     /\ SubSeq(whole, 1, Len(given)) = given
     /\ SubSeq(whole, Len(whole) - Len(subject) + 1, Len(whole)) = subject
     /\ includes(middle, Q_range) <=> preference = P_recent
     /\ includes(middle, Q_before) <=> preference = P_classic
     /\ preference \notin {P_recent, P_classic} => Range(middle) \subseteq {" "}

\* C19 as stated: the text the search client sends is built from the search query and the
\* publication preference of the analysis: the date-range qualifier is appended when the
\* preference is recent, the "before:" qualifier when it is classic, no date qualifier
\* otherwise, and the subject qualifier always; one invocation makes one GET.
C19_SearchQueryFollowsPreference ==
  \A r \in Reqs :
    /\ Len(catalogCalls(r)) <= 1
    /\ \A i \in 1..Len(catalogCalls(r)) :
         builtFrom(catalogCalls(r)[i].fullQuery, catalogCalls(r)[i].query, preferenceOf(r))
\* C19 amended: in part_000 and part_001 the search client is given the query and the
\* publication preference of the analysis and builds the text as claimed; the search client
\* of the two services of index.js is given the query only and appends the subject
\* qualifier and never a date qualifier, whatever the preference.  One invocation makes one
\* GET, and a request invokes the client at most once.
C19_SearchQueryIsBuiltFromArguments ==
  \A r \in Reqs :
    /\ Len(catalogCalls(r)) <= 1
    /\ pc[r] = "Searching" => Len(catalogCalls(r)) = 1
    /\ \A i \in 1..Len(catalogCalls(r)) :
         LET c == catalogCalls(r)[i]
         IN /\ c.publication = (IF variant \in {"part_000", "part_001"}
                                THEN preferenceOf(r) ELSE Undefined)
            /\ builtFrom(c.fullQuery, c.query, c.publication)
            /\ variant \in {"index_a", "index_b"} => c.fullQuery = c.query \o Q_subject
\* C19 witness: part_001 searched for a reader of classics
C19_Witness ==
  \E r \in Reqs :
    /\ variant = "part_001" /\ Len(replies[r]) = 2
    /\ Len(catalogCalls(r)) = 1
    /\ catalogCalls(r)[1].publication = P_classic
    /\ includes(catalogCalls(r)[1].fullQuery, Q_inauthor \o Q_before)


\* the turns of request r's history that are recommendations of the assistant
recommendationTurns(r) ==
  SelectSeq(history(body[r]), LAMBDA m : ~m.isUser /\ m.type = "recommendation")
\* C20 as stated: the response to an "another" request whose previous recommendation had
\* title T is never a recommendation whose title is T, whatever the selector returns.
C20_AnotherNeverRepeats ==
  \A r \in Reqs :
    LET turns == recommendationTurns(r)
        last == turns[Len(turns)]
    IN (/\ pc[r] = "done" /\ wantsAnother(body[r].message)
        /\ Len(turns) > 0 /\ IsSome(last.recommendation)
        /\ ~NullishStr(Get(last.recommendation).title)
        /\ sent[r][1].type = "recommendation" /\ IsSome(sent[r][1].recommendation)) =>
         Get(sent[r][1].recommendation).title # Get(last.recommendation).title
\* C20 amended: when part_000 handles an "another" request whose previous recommendation
\* turn carries an analysis and a non-empty title T, no catalog record whose title contains
\* T, in any letter case, is used for the response; the selector's answer is not checked,
\* so a recommendation whose title contains T is the selector's answer as it was returned,
\* with nothing filled in from the catalog.
C20_AnotherNeverUsesExcludedRecord ==
  \A r \in Reqs :
    LET turns == recommendationTurns(r)
        last == turns[Len(turns)]
        T == Get(last.recommendation).title
        out == Get(sent[r][1].recommendation)
    IN (/\ variant = "part_000"
        /\ pc[r] = "done" /\ wantsAnother(body[r].message)
        /\ Len(turns) > 0 /\ IsSome(last.recommendation) /\ IsSome(last.analysis)
        /\ TruthyStr(T)
        /\ sent[r][1].type = "recommendation" /\ IsSome(sent[r][1].recommendation)
        /\ ~NullishStr(out.title)
        /\ includes(toLowerCase(out.title), toLowerCase(T))) =>
         /\ out = Get(getGeminiRecommendation(variant, replies[r][Len(replies[r])].reply).value)
         /\ \A k \in 1..Len(novels[r]) :
              NullishStr(novels[r][k].title)
              \/ ~includes(toLowerCase(novels[r][k].title), toLowerCase(T))
\* C20 witness: the catalog returned the book shown before, the selector named it again
\* and the request ended with that title, nothing filled in
C20_Witness ==
  \E r \in Reqs :
    /\ shortcut[r] /\ pc[r] = "done" /\ excludedTitle[r] = T_Dune
    /\ sent[r][1].type = "recommendation"
    /\ IsSome(replies[r][1].reply.items)
    /\ B_Dune \in Range(Get(replies[r][1].reply.items))
    /\ sent[r][1].recommendation = Some(R_Dune)

(***************************************************************************)
(* One request whose upstream answers every call: each pending call        *)
(* eventually returns or fails                                             *)
(***************************************************************************)
SpecLive ==
  /\ Init /\ [][Next]_vars
  /\ WF_vars(\E reply \in ExtractorReplies : ExtractorReturns(1, reply))
  /\ WF_vars(\E reply \in CatalogReplies : CatalogReturns(1, reply))
  /\ WF_vars(\E reply \in SelectorReplies : SelectorReturns(1, reply))

\* an outbound call of request r has been issued and has not settled yet
pending(r) == Len(calls[r]) > Len(replies[r])
\* C21: when every outbound call eventually returns or fails, a request with a pending
\* call eventually reaches its terminal state with a response sent; and as long as a call
\* of the request is pending, the request has sent nothing.
C21_PendingThenAnswered ==
  \A r \in Reqs :
    /\ [](pending(r) => sent[r] = <<>> /\ pc[r] # "done")
    /\ pending(r) ~> (pc[r] = "done" /\ ~pending(r) /\ Len(sent[r]) = 1)
\* C21 witness: a request that waited for three calls, the last of which failed, is answered
C21_Witness ==
  \E r \in Reqs :
    /\ pc[r] = "done" /\ Len(calls[r]) = 3 /\ Len(replies[r]) = 3
    /\ replies[r][3].reply.kind = "error"
    /\ Len(sent[r]) = 1 /\ sent[r][1].status = 500

\* C22: the transcript of every extractor call has one line per turn of the request's
\* history, in the history's order, labelled User or Assistant by the turn's isUser flag
\* and carrying the turn's text, followed by one last User line with the new message; a
\* request without a history gets the line of its message alone.
C22_TranscriptFollowsHistory ==
  \A r \in Reqs :
    \A i \in 1..Len(calls[r]) :
      calls[r][i].api = "extractor" =>
        LET given == body[r].conversationHistory
            turns == IF given = None THEN <<>> ELSE given[1]
            lines == calls[r][i].transcript
        IN /\ Len(lines) = Len(turns) + 1
           /\ \A k \in 1..Len(turns) :
                /\ lines[k].who = (IF turns[k].isUser THEN "User" ELSE "Assistant")
                /\ lines[k].text = turns[k].text
           /\ lines[Len(lines)].who = "User"
           /\ lines[Len(lines)].text = body[r].message
\* C22 witness: the extractor was called for a history holding a user turn and a bot turn
C22_Witness ==
  \E r \in Reqs :
    /\ Len(calls[r]) > 0 /\ calls[r][1].api = "extractor"
    /\ Len(calls[r][1].transcript) = 3
    /\ calls[r][1].transcript[1].who = "User"
    /\ calls[r][1].transcript[2].who = "Assistant"

\* C23: at no point has a request sent more than one response, and every request that was
\* received and is not waiting for an outbound call has sent exactly one: each path of
\* the handler ends with one response, none with two.
C23_ExactlyOneResponse ==
  \A r \in Reqs :
    /\ Len(sent[r]) <= 1
    /\ (pc[r] # "idle" /\ ~pending(r)) => Len(sent[r]) = 1
    /\ pc[r] = "idle" => sent[r] = <<>>
\* C23 witness: the last statement of the handler, the recommendation written without a
\* return, was the request's only response
C23_Witness ==
  \E r \in Reqs :
    /\ pc[r] # "idle" /\ ~pending(r)
    /\ Len(replies[r]) > 0 /\ replies[r][Len(replies[r])].api = "selector"
    /\ Len(sent[r]) = 1 /\ sent[r][1].type = "recommendation"

\* C24: every selector call was made for a non-empty candidate sequence: the request's
\* filtered candidates (after the title exclusion in an "another" request) are not empty
\* and the list of books put into the call is not empty.
C24_SelectorGetsCandidates ==
  \A r \in Reqs :
    \A i \in 1..Len(calls[r]) :
      calls[r][i].api = "selector" =>
        /\ Len(novels[r]) > 0
        /\ Len(calls[r][i].books) > 0
        /\ i > 1 /\ calls[r][i - 1].api = "catalog"
        /\ replies[r][i - 1].reply.kind = "ok"
        /\ replies[r][i - 1].reply.items # None
\* C24 witness: the selector was called in an "another" request whose catalog reply had
\* lost a record to the title exclusion
C24_Witness ==
  \E r \in Reqs :
    /\ shortcut[r] /\ Len(calls[r]) = 2 /\ calls[r][2].api = "selector"
    /\ Len(replies[r]) > 0 /\ replies[r][1].reply.items # None
    /\ Len(novels[r]) > 0
    /\ Len(novels[r]) < Len(filterNovelsOnly(variant, replies[r][1].reply.items[1]))

\* C25: a request whose message asks for another book either starts with the catalog call
\* of the shortcut, and then its history holds a bot turn of type recommendation that
\* carries a recommendation and an analysis, the analysis being the one reused; or it
\* starts with the extractor call on the transcript of the whole history and the message.
\* With no such turn in the history the request always starts with the extractor call.
C25_ShortcutNeedsCompleteTurn ==
  \A r \in Reqs :
    (pc[r] # "idle" /\ TruthyStr(body[r].message) /\ wantsAnother(body[r].message)) =>
      LET given == body[r].conversationHistory
          turns == IF given = None THEN <<>> ELSE given[1]
          complete == {i \in 1..Len(turns) :
                         /\ ~turns[i].isUser /\ turns[i].type = "recommendation"
                         /\ turns[i].recommendation # None /\ turns[i].analysis # None}
      IN /\ Len(calls[r]) > 0
         /\ calls[r][1].api \in {"extractor", "catalog"}
         /\ calls[r][1].api = "catalog" =>
              /\ variant = "part_000"
              /\ shortcut[r]
              /\ \E i \in complete : analysis[r] = turns[i].analysis
              /\ \A i \in 1..Len(calls[r]) : calls[r][i].api # "extractor"
         /\ calls[r][1].api = "extractor" =>
              /\ ~shortcut[r]
              /\ Len(calls[r][1].transcript) = Len(turns) + 1
              /\ calls[r][1].transcript[Len(turns) + 1] = Line("User", body[r].message)
         /\ complete = {} => calls[r][1].api = "extractor"
\* C25 witness: part_000 called the extractor for an "another" message whose only
\* recommendation turn carries no analysis
C25_Witness ==
  \E r \in Reqs :
    /\ variant = "part_000" /\ pc[r] # "idle"
    /\ TruthyStr(body[r].message) /\ wantsAnother(body[r].message)
    /\ body[r].conversationHistory = Some(<<RecTurn(T_Dune, None)>>)
    /\ Len(calls[r]) > 0 /\ calls[r][1].api = "extractor"

\* C26: in a request handled as an "another" request, the excluded title is the title of
\* the last turn of the history that is a bot turn of type recommendation, whatever turns
\* follow it, and the analysis used for the search and handed to the selector is that
\* turn's analysis.
C26_AnotherUsesLatestRecommendation ==
  \A r \in Reqs :
    (Len(calls[r]) > 0 /\ calls[r][1].api = "catalog") =>
      LET turns == body[r].conversationHistory[1]
          recs == {i \in 1..Len(turns) : ~turns[i].isUser /\ turns[i].type = "recommendation"}
          latest == CHOOSE i \in recs : \A j \in recs : j <= i
          prev == turns[latest].analysis[1]
      IN /\ recs # {}
         /\ excludedTitle[r] = turns[latest].recommendation[1].title
         /\ analysis[r] = turns[latest].analysis
         /\ calls[r][1].query = (IF TruthyStr(prev.searchQuery) THEN prev.searchQuery ELSE Q_fiction)
         /\ calls[r][1].publication = (IF prev.preferences = None THEN Undefined
                                      ELSE prev.preferences[1].publication)
         /\ \A i \in 1..Len(calls[r]) :
              calls[r][i].api = "selector" => calls[r][i].excluded = excludedTitle[r]
\* C26 witness: an "another" request whose history ends with a question turn after the
\* recommendation reached the selector with the recommendation's title excluded
C26_Witness ==
  \E r \in Reqs :
    /\ Len(calls[r]) = 2 /\ calls[r][1].api = "catalog" /\ calls[r][2].api = "selector"
    /\ Len(body[r].conversationHistory[1]) = 2
    /\ body[r].conversationHistory[1][2].type = "question"
    /\ calls[r][2].excluded = T_Dune

\* xs is ys with some elements left out, the others in the order of ys
RECURSIVE IsSubsequence(_, _)
IsSubsequence(xs, ys) ==
  IF Len(xs) = 0 THEN TRUE
  ELSE IF Len(ys) = 0 THEN FALSE
  ELSE IF Head(xs) = Head(ys) THEN IsSubsequence(Tail(xs), Tail(ys))
  ELSE IsSubsequence(xs, Tail(ys))
\* the positions of the candidates of request r whose title contains title, letter case aside
matching(r, title) ==
  {k \in 1..Len(novels[r]) :
     /\ ~NullishStr(novels[r][k].title)
     /\ includes(toLowerCase(novels[r][k].title), toLowerCase(title))}
\* C27: the candidates of a request are a subsequence, in catalog order, of the items of
\* the catalog reply, each of them a record the filter keeps; and a recommendation sent is
\* the selector's answer filled in from the first candidate whose title contains the chosen
\* title case-insensitively, or the selector's answer itself when no candidate does.
C27_EnrichedFromFirstMatch ==
  \A r \in Reqs :
    \A i \in 1..Len(replies[r]) :
      /\ (replies[r][i].api = "catalog" /\ replies[r][i].reply.items # None /\ Len(replies[r]) = i) =>
           /\ IsSubsequence(novels[r], replies[r][i].reply.items[1])
           /\ \A k \in 1..Len(novels[r]) : keepsBook(variant, novels[r][k])
      /\ (/\ replies[r][i].api = "selector" /\ i > 1
          /\ Len(sent[r]) = 1 /\ sent[r][1].type = "recommendation"
          /\ sent[r][1].recommendation # None) =>
           LET chosen == getGeminiRecommendation(variant, replies[r][i].reply).value[1]
               hits == matching(r, chosen.title)
               first == CHOOSE k \in hits : \A j \in hits : k <= j
           IN /\ IsSubsequence(novels[r], replies[r][i - 1].reply.items[1])
              /\ sent[r][1].recommendation[1] =
                   (IF hits = {} THEN chosen
                    ELSE enrich(variant, chosen, Some(novels[r][first])))
\* C27 witness: two candidates carry the chosen title and the recommendation was filled
\* in from the first, which differs from the second
C27_Witness ==
  \E r \in Reqs :
    /\ pc[r] = "done" /\ Len(sent[r]) = 1 /\ sent[r][1].type = "recommendation"
    /\ sent[r][1].recommendation # None
    /\ \E t \in {T_dune} :
         /\ matching(r, t) = {1, 2}
         /\ novels[r][1] # novels[r][2]
         /\ sent[r][1].recommendation[1] = enrich(variant, R_dune, Some(novels[r][1]))
         /\ sent[r][1].recommendation[1] # enrich(variant, R_dune, Some(novels[r][2]))

====
